---------------------------- MODULE Spec2Model ----------------------------
(***************************************************************************)
(* Healthcare fraud dashboard (src/fraud_dashboard.py).                    *)
(*                                                                         *)
(* One Streamlit process: load_data() is memoised by st.cache_data, and    *)
(* every UI event re-runs main() from top to bottom: the sidebar filters   *)
(* narrow the loaded frame, the KPI cards and the five tabs are computed   *)
(* from the narrowed frame.  A run that raises ends where it raised.       *)
(*                                                                         *)
(* A DataFrame is a record [columns, rows]; a row is a record with one     *)
(* field per column plus idx, its index label.  Timestamps are day         *)
(* numbers of the year 2020, NaT is 0 and compares false with everything,  *)
(* a missing label (NaN) is the string "NaN", a numeric cell is <<n>> and  *)
(* a missing numeric cell is <<>>.  A text is the sequence of its          *)
(* characters; a text cell is <<text>>, a missing text cell is <<>>.       *)
(* Of the CSV columns the frames carry Provider, ClaimType, the two dates, *)
(* InscClaimAmtReimbursed, LengthOfStay, Gender, Race,                     *)
(* ChronicConditionList and PotentialFraud.                                *)
(***************************************************************************)
EXTENDS Integers, Sequences, FiniteSets, TLC

VARIABLES
    file,            \* healthcare_fraud_claims_clean.csv: [present, rows]
    cache,           \* the st.cache_data entry of load_data: [valid, value]
    reads,           \* how many times the file was read and parsed
    first_load,      \* the frame produced by the first successful parse
    load_kind,       \* how the last call of load_data() was answered
    wrote_source,    \* the run before the last wrote into the frame it was given
    selection,       \* what the four sidebar widgets returned in the last run
    df_loaded,       \* the frame load_data() returned to the last run
    df,              \* that same object when the run ended
    steps,           \* df_filtered after each of the four filter steps
    df_filtered,     \* df_filtered when the run ended
    kpi,             \* total_claims, fraud_count, fraud_percentage
    all_conditions,  \* the condition list load_data() returned to the last run
    emitted,         \* the UI elements the last run emitted, in order
    stage            \* where the last run ended ("done" or the raising site)

vars == <<file, cache, reads, first_load, load_kind, wrote_source, selection,
          df_loaded, df, steps, df_filtered, kpi, all_conditions, emitted, stage>>

-----------------------------------------------------------------------------
(* Bounds *)

MaxRows == 2

-----------------------------------------------------------------------------
(* Values *)

NaT == 0

NaN == "NaN"

BadDate == <<>>

\* Raw date text "a/b/2020" is the pair <<a, b>>; anything else is BadDate.
DaysInMonth == <<31, 29, 31, 30, 31, 30, 31, 31, 30, 31, 30, 31>>

RECURSIVE DaysBefore(_)
DaysBefore(m) == IF m <= 1 THEN 0 ELSE DaysInMonth[m - 1] + DaysBefore(m - 1)

\* pd.to_datetime(text, dayfirst=True, errors='coerce')
ToDatetime(raw) ==
    IF Len(raw) = 2 /\ raw[2] \in 1..12 /\ raw[1] >= 1
       /\ raw[1] <= DaysInMonth[raw[2]]
    THEN DaysBefore(raw[2]) + raw[1]
    ELSE NaT

MonthOf(ts) == CHOOSE m \in 1..12 : DaysBefore(m) < ts /\ ts <= DaysBefore(m) + DaysInMonth[m]

MonthLabels == <<"2020-01", "2020-02", "2020-03", "2020-04", "2020-05", "2020-06",
                 "2020-07", "2020-08", "2020-09", "2020-10", "2020-11", "2020-12">>

\* Series.dt.to_period('M').astype(str)
ToPeriodM(ts) == IF ts = NaT THEN "NaT" ELSE MonthLabels[MonthOf(ts)]

\* Series.map({1: 'Male', 2: 'Female'})
GenderMap(code) ==
    CASE code = 1 -> "Male"
      [] code = 2 -> "Female"
      [] OTHER -> NaN

\* Mutant of RaceMap: code 5 left out of the dictionary.
RaceMapWithoutFive(code) ==
    CASE code = 1 -> "White"
      [] code = 2 -> "Black"
      [] code = 3 -> "Asian"
      [] code = 4 -> "Other"
      [] OTHER -> NaN

\* Series.map({1: 'White', 2: 'Black', 3: 'Asian', 4: 'Other', 5: 'Other'})
RaceMap(code) ==
    CASE code = 1 -> "White"
      [] code = 2 -> "Black"
      [] code = 3 -> "Asian"
      [] code = 4 -> "Other"
      [] code = 5 -> "Other"
      [] OTHER -> NaN

\* Mutant of ClaimDurationOf: the difference of the dates without the + 1.
ClaimDurationExclusive(attending, claimEnd) ==
    IF attending = NaT \/ claimEnd = NaT THEN <<>> ELSE <<claimEnd - attending>>

\* (ClaimEndDate - AttendingDate).dt.days + 1; missing when either date is NaT
ClaimDurationOf(attending, claimEnd) ==
    IF attending = NaT \/ claimEnd = NaT THEN <<>> ELSE <<(claimEnd - attending) + 1>>

CsvColumns == {"Provider", "ClaimType", "AttendingDate", "ClaimEndDate",
               "InscClaimAmtReimbursed", "LengthOfStay", "Gender", "Race",
               "ChronicConditionList", "PotentialFraud"}

LoadedColumns == CsvColumns \cup {"ClaimDuration"}

\* One row of the frame load_data() builds from CSV line i.
LoadRow(raw, i) ==
    LET attending == ToDatetime(raw.AttendingDate)
        claimEnd  == ToDatetime(raw.ClaimEndDate)
    IN  [idx            |-> i - 1,
         Provider       |-> raw.Provider,
         ClaimType      |-> raw.ClaimType,
         AttendingDate  |-> attending,
         ClaimEndDate   |-> claimEnd,
         ClaimDuration  |-> ClaimDurationOf(attending, claimEnd),
         InscClaimAmtReimbursed |-> raw.InscClaimAmtReimbursed,
         LengthOfStay   |-> raw.LengthOfStay,
         Gender         |-> GenderMap(raw.Gender),
         Race           |-> RaceMap(raw.Race),
         ChronicConditionList |-> raw.ChronicConditionList,
         PotentialFraud |-> raw.PotentialFraud]

\* The body of load_data(): the frame parsed from the file's lines.
ParseFile(rows) ==
    [columns |-> LoadedColumns,
     rows    |-> [i \in 1..Len(rows) |-> LoadRow(rows[i], i)]]

RECURSIVE Split(_)
\* text.split(','): the pieces between the commas, empty pieces included
Split(text) ==
    IF text = <<>> THEN << <<>> >>
    ELSE IF Head(text) = "," THEN << <<>> >> \o Split(Tail(text))
    ELSE LET rest == Split(Tail(text))
         IN  << <<Head(text)>> \o Head(rest) >> \o Tail(rest)

RECURSIVE LStrip(_)
LStrip(text) ==
    IF text # <<>> /\ Head(text) = " " THEN LStrip(Tail(text)) ELSE text

RECURSIVE RStrip(_)
RStrip(text) ==
    IF text # <<>> /\ text[Len(text)] = " "
    THEN RStrip(SubSeq(text, 1, Len(text) - 1)) ELSE text

\* Mutant of Strip: only the leading blanks removed.
StripLeading(text) == LStrip(text)

\* text.strip()
Strip(text) == RStrip(LStrip(text))

\* [cond.strip() for cond in condition_list.split(',')]
Conditions(text) == [i \in 1..Len(Split(text)) |-> Strip(Split(text)[i])]

RECURSIVE AllConditions(_)
\* for condition_list in df['ChronicConditionList'].dropna():
\*     all_conditions.extend(...)
AllConditions(rows) ==
    IF rows = <<>> THEN <<>>
    ELSE IF Head(rows).ChronicConditionList = <<>> THEN AllConditions(Tail(rows))
    ELSE Conditions(Head(rows).ChronicConditionList[1]) \o AllConditions(Tail(rows))

-----------------------------------------------------------------------------
(* Frames *)

RECURSIVE SelectRows(_, _)
\* frame[mask]: the rows whose index label is in keep, in frame order, as a
\* new frame.
SelectRows(rows, keep) ==
    IF rows = <<>> THEN <<>>
    ELSE IF Head(rows).idx \in keep
         THEN <<Head(rows)>> \o SelectRows(Tail(rows), keep)
         ELSE SelectRows(Tail(rows), keep)

Mask(frame, keep) == [columns |-> frame.columns, rows |-> SelectRows(frame.rows, keep)]

RowSet(frame) == {frame.rows[i] : i \in 1..Len(frame.rows)}

IdxSet(frame) == {frame.rows[i].idx : i \in 1..Len(frame.rows)}

\* Series.min() / Series.max() of a datetime column: NaT is skipped, and the
\* result is NaT when nothing is left.
ValidDates(frame) == {r.AttendingDate : r \in RowSet(frame)} \ {NaT}

MinDate(frame) ==
    IF ValidDates(frame) = {} THEN NaT
    ELSE CHOOSE d \in ValidDates(frame) : \A e \in ValidDates(frame) : d <= e

MaxDate(frame) ==
    IF ValidDates(frame) = {} THEN NaT
    ELSE CHOOSE d \in ValidDates(frame) : \A e \in ValidDates(frame) : d >= e

\* Comparisons of a datetime column with a Timestamp: False on NaT.
DateGe(a, b) == a # NaT /\ b # NaT /\ a >= b

\* Mutant of DateLe: the end of the range excluded.
DateLeStrict(a, b) == a # NaT /\ b # NaT /\ a < b

DateLe(a, b) == a # NaT /\ b # NaT /\ a <= b

-----------------------------------------------------------------------------
(* The sidebar filters of main() *)

AllProviders == "All Providers"

AllClaims == "All Claims"

FraudStatusOptions == {AllClaims, "Potential Fraud", "No Fraud"}

\* fraud_mapping = {'Potential Fraud': 'Yes', 'No Fraud': 'No'}
FraudMapping == [l \in {"Potential Fraud", "No Fraud"} |->
                    IF l = "Potential Fraud" THEN "Yes" ELSE "No"]

\* st.date_input(value=(min_date, max_date), min_value=min_date,
\* max_value=max_date): a tuple of zero, one or two dates of the range, the
\* first not after the second.
DateInput(min_date, max_date) ==
    {<<>>}
    \cup {<<a>> : a \in min_date..max_date}
    \cup {p \in (min_date..max_date) \X (min_date..max_date) : p[1] <= p[2]}

\* if len(date_range) == 2: df[(AttendingDate >= start) & (AttendingDate <= end)]
\* else: df
DateStep(frame, date_range) ==
    IF Len(date_range) = 2
    THEN Mask(frame, {r.idx : r \in {q \in RowSet(frame) :
                          /\ DateGe(q.AttendingDate, date_range[1])
                          /\ DateLe(q.AttendingDate, date_range[2])}})
    ELSE frame

\* ['All Providers'] + sorted(df_filtered['Provider'].unique().tolist())
ProviderOptions(frame) == {AllProviders} \cup {r.Provider : r \in RowSet(frame)}

\* Mutant of ProviderStep: the provider mask applied to df, not df_filtered.
ProviderStepOnSource(frame, selected_provider) ==
    LET source == IF cache.valid THEN cache.value ELSE ParseFile(file.rows)
    IN  IF selected_provider # AllProviders
        THEN Mask(source, {r.idx : r \in {q \in RowSet(source) :
                              q.Provider = selected_provider}})
        ELSE frame

\* if selected_provider != 'All Providers': df_filtered[Provider == selected]
ProviderStep(frame, selected_provider) ==
    IF selected_provider # AllProviders
    THEN Mask(frame, {r.idx : r \in {q \in RowSet(frame) :
                          q.Provider = selected_provider}})
    ELSE frame

\* selected_status = [fraud_mapping[s] for s in fraud_status if s in fraud_mapping]
SelectedStatus(fraud_status) ==
    {FraudMapping[l] : l \in fraud_status \cap DOMAIN FraudMapping}

\* Mutant of FraudStep: an empty selection treated as no filter.
FraudStepEmptyIsNoOp(frame, fraud_status) ==
    IF fraud_status # {} /\ AllClaims \notin fraud_status
    THEN Mask(frame, {r.idx : r \in {q \in RowSet(frame) :
                          q.PotentialFraud \in SelectedStatus(fraud_status)}})
    ELSE frame

\* if 'All Claims' not in fraud_status: df_filtered[PotentialFraud.isin(...)]
FraudStep(frame, fraud_status) ==
    IF AllClaims \notin fraud_status
    THEN Mask(frame, {r.idx : r \in {q \in RowSet(frame) :
                          q.PotentialFraud \in SelectedStatus(fraud_status)}})
    ELSE frame

RECURSIVE Unique(_, _)
\* Series.unique().tolist(): the distinct values in order of first appearance
Unique(values, seen) ==
    IF values = <<>> THEN <<>>
    ELSE IF Head(values) \in seen THEN Unique(Tail(values), seen)
         ELSE <<Head(values)>> \o Unique(Tail(values), seen \cup {Head(values)})

\* df_filtered['ClaimType'].unique().tolist()
ClaimTypeOptions(frame) ==
    Unique([i \in 1..Len(frame.rows) |-> frame.rows[i].ClaimType], {})

ClaimTypeOptionSet(frame) ==
    {ClaimTypeOptions(frame)[i] : i \in 1..Len(ClaimTypeOptions(frame))}

\* Mutant of ClaimTypeStep: the mask applied without the `if claim_types`.
ClaimTypeStepNoGuard(frame, claim_types) ==
    Mask(frame, {r.idx : r \in {q \in RowSet(frame) : q.ClaimType \in claim_types}})

\* if claim_types: df_filtered[ClaimType.isin(claim_types)]
ClaimTypeStep(frame, claim_types) ==
    IF claim_types # {}
    THEN Mask(frame, {r.idx : r \in {q \in RowSet(frame) :
                          q.ClaimType \in claim_types}})
    ELSE frame

\* df_filtered is still the very object load_data() returned exactly when no
\* step rebound it: every step took its pass-through branch.
SameObject(sel) ==
    /\ Len(sel.date_range) # 2
    /\ sel.selected_provider = AllProviders
    /\ AllClaims \in sel.fraud_status
    /\ sel.claim_types = {}

FilterSteps(loaded, sel) ==
    LET f1 == DateStep(loaded, sel.date_range)
        f2 == ProviderStep(f1, sel.selected_provider)
        f3 == FraudStep(f2, sel.fraud_status)
        f4 == ClaimTypeStep(f3, sel.claim_types)
    IN  <<f1, f2, f3, f4>>

-----------------------------------------------------------------------------
(* The KPI cards and the tabs *)

\* fraud_count = len(df_filtered[df_filtered['PotentialFraud'] == 'Yes'])
FraudCount(frame) == Cardinality({i \in 1..Len(frame.rows) :
                                     frame.rows[i].PotentialFraud = "Yes"})

\* Mutant of FraudPercentage: the operands of the division swapped.
FraudPercentageInverted(fraud_count, total_claims) ==
    IF total_claims > 0 THEN <<total_claims * 100, fraud_count>> ELSE <<0, 1>>

\* (fraud_count / total_claims * 100) if total_claims > 0 else 0, as the
\* fraction <<numerator, denominator>>.
FraudPercentage(fraud_count, total_claims) ==
    IF total_claims > 0 THEN <<fraud_count * 100, total_claims>> ELSE <<0, 1>>

Kpi(frame) ==
    [computed         |-> TRUE,
     total_claims     |-> Len(frame.rows),
     fraud_count      |-> FraudCount(frame),
     fraud_percentage |-> FraudPercentage(FraudCount(frame), Len(frame.rows))]

NoKpi == [computed |-> FALSE, total_claims |-> 0, fraud_count |-> 0,
          fraud_percentage |-> <<0, 1>>]

\* df_filtered['Month'] = df_filtered['AttendingDate'].dt.to_period('M').astype(str)
AssignMonth(frame) ==
    [columns |-> frame.columns \cup {"Month"},
     rows    |-> [i \in 1..Len(frame.rows) |->
                    [c \in DOMAIN frame.rows[i] \cup {"Month"} |->
                        IF c = "Month" THEN ToPeriodM(frame.rows[i].AttendingDate)
                        ELSE frame.rows[i][c]]]]

\* The first statement of main() after the filters that raises on this
\* df_filtered, or "done":
\*   sidebar_summary  NaT.strftime (no row with a date)
\*   claim_dist       claim_dist.index[0] on an empty value_counts()
\*   race_dist        race_dist.index[0] on an empty value_counts()
EndStage(frame) ==
    IF MinDate(frame) = NaT THEN "sidebar_summary"
    ELSE IF \A r \in RowSet(frame) : r.ClaimType = NaN THEN "claim_dist"
    ELSE IF \A r \in RowSet(frame) : r.Race = NaN THEN "race_dist"
    ELSE "done"

StagesWithKpi == {"claim_dist", "race_dist", "done"}

\* The st.* calls a run executes before it ends at `end`, in order: the
\* style sheet of the module body, then main().
Emitted(end) ==
    LET head    == <<"style", "main_header">>
        sidebar == <<"filter_controls_header">>
        widgets == <<"date_input", "provider_selectbox", "fraud_status_multiselect",
                     "claim_type_multiselect">>
        upto390 == <<"data_summary", "kpi_cards", "tabs", "fraud_pie",
                     "fraud_insights", "claim_type_bar">>
        upto447 == <<"claim_type_insights", "gender_pie", "gender_insights",
                     "race_bar">>
        rest    == <<"race_insights", "financial_tab", "provider_tab",
                     "temporal_tab", "medical_tab">>
    IN  CASE end = "load_data"       -> head
          [] end = "date_input"      -> head \o sidebar
          [] end = "sidebar_summary" -> head \o sidebar \o widgets
          [] end = "claim_dist"      -> head \o sidebar \o widgets \o upto390
          [] end = "race_dist"       -> head \o sidebar \o widgets \o upto390 \o upto447
          [] OTHER                   -> head \o sidebar \o widgets \o upto390 \o upto447
                                        \o rest

\* Series.value_counts(): the count of every label of the column, rows
\* with a missing label (NaN) dropped.
ValueCounts(frame, col) ==
    [v \in {r[col] : r \in RowSet(frame)} \ {NaN} |->
        Cardinality({i \in 1..Len(frame.rows) : frame.rows[i][col] = v})]

RECURSIVE SumOver(_, _)
\* Series.sum() of a series given as a function, over the labels in `keys`
SumOver(f, keys) ==
    IF keys = {} THEN 0
    ELSE LET k == CHOOSE x \in keys : TRUE
         IN  f[k] + SumOver(f, keys \ {k})

\* The stages at which tab 1 has computed fraud_dist, claim_dist,
\* gender_dist and race_dist
StagesWithDistributions == {"race_dist", "done"}

\* fraud_dist, claim_dist, gender_dist, race_dist of tab 1
Distributions(frame) ==
    [fraud_dist  |-> ValueCounts(frame, "PotentialFraud"),
     claim_dist  |-> ValueCounts(frame, "ClaimType"),
     gender_dist |-> ValueCounts(frame, "Gender"),
     race_dist   |-> ValueCounts(frame, "Race")]

\* Aggregates are fractions <<numerator, denominator>> with a positive
\* denominator; a value rounded to two decimals has denominator 100.
Gt(a, b) == a[1] * b[2] > b[1] * a[2]

\* The nearest integer to num / den, a tie going to the even one
RoundHalfEven(num, den) ==
    LET q == num \div den
        r == num % den
    IN  IF 2 * r < den THEN q
        ELSE IF 2 * r > den THEN q + 1
        ELSE IF q % 2 = 0 THEN q ELSE q + 1

\* .round(2) of the quotient num / den
Round2(num, den) == <<RoundHalfEven(num * 100, den), 100>>

RECURSIVE SumColumn(_, _)
\* Series.sum() of an integer column
SumColumn(rows, col) ==
    IF rows = <<>> THEN 0 ELSE Head(rows)[col] + SumColumn(Tail(rows), col)

RECURSIVE SortValuesDesc(_, _)
\* sort_values(col, ascending=False): rows in descending order of the
\* fraction in col, rows of equal value in their order before the sort
SortValuesDesc(rows, col) ==
    IF rows = <<>> THEN <<>>
    ELSE LET rest  == SortValuesDesc(Tail(rows), col)
             above == Cardinality({i \in 1..Len(rest) : Gt(rest[i][col], Head(rows)[col])})
         IN  SubSeq(rest, 1, above) \o <<Head(rows)>> \o SubSeq(rest, above + 1, Len(rest))

\* .head(n)
HeadRows(rows, n) == SubSeq(rows, 1, IF Len(rows) < n THEN Len(rows) ELSE n)

\* The provider names of the files, in the order groupby sorts them
ProviderNames == <<"PRV1", "PRV2">>

\* The keys of groupby('Provider'), sorted
ProviderKeys(frame) ==
    SelectSeq(ProviderNames, LAMBDA p : \E r \in RowSet(frame) : r.Provider = p)

\* One row of provider_stats: the aggregates of the provider's rows,
\* rounded to two decimals
ProviderStatsRow(frame, provider) ==
    LET own   == SelectSeq(frame.rows, LAMBDA r : r.Provider = provider)
        count == Len(own)
        fraud == Len(SelectSeq(own, LAMBDA r : r.PotentialFraud = "Yes"))
    IN  [Provider       |-> provider,
         Fraud_Rate_pct |-> Round2(fraud * 100, count),
         Avg_Claim      |-> Round2(SumColumn(own, "InscClaimAmtReimbursed"), count),
         Total_Claims   |-> Round2(SumColumn(own, "InscClaimAmtReimbursed"), 1),
         Claim_Count    |-> Round2(count, 1),
         Avg_LOS_days   |-> Round2(SumColumn(own, "LengthOfStay"), count)]

\* provider_stats, sorted by Fraud_Rate_% descending
ProviderStats(frame) ==
    SortValuesDesc([i \in 1..Len(ProviderKeys(frame)) |->
                       ProviderStatsRow(frame, ProviderKeys(frame)[i])],
                   "Fraud_Rate_pct")

HighColor == "#e74c3c"

ModerateColor == "#f39c12"

LowColor == "#2ecc71"

\* '#e74c3c' if val > 30 else ('#f39c12' if val > 15 else '#2ecc71')
color_fraud_rate(val) ==
    IF Gt(val, <<30, 1>>) THEN HighColor
    ELSE IF Gt(val, <<15, 1>>) THEN ModerateColor
    ELSE LowColor

PanelRows == 15

\* styled_df: provider_stats.head(15), each row with the colour of its rate
RiskPanel(frame) ==
    LET shown == HeadRows(ProviderStats(frame), PanelRows)
    IN  [i \in 1..Len(shown) |->
            [stats |-> shown[i], color |-> color_fraud_rate(shown[i].Fraud_Rate_pct)]]

FraudFlags == <<"No", "Yes">>

\* The keys of groupby(['Provider', 'PotentialFraud']), sorted
ProviderFraudKeys(frame) ==
    SelectSeq([i \in 1..(Len(ProviderNames) * 2) |->
                  <<ProviderNames[((i - 1) \div 2) + 1], FraudFlags[((i - 1) % 2) + 1]>>],
              LAMBDA key : \E r \in RowSet(frame) :
                               r.Provider = key[1] /\ r.PotentialFraud = key[2])

AmountRows == 15

\* provider_avg: the mean amount of every (provider, fraud flag) group,
\* sorted descending, the first 15
ProviderAvg(frame) ==
    LET keys == ProviderFraudKeys(frame)
        own(key) == SelectSeq(frame.rows, LAMBDA r : r.Provider = key[1]
                                                     /\ r.PotentialFraud = key[2])
    IN  HeadRows(SortValuesDesc(
            [i \in 1..Len(keys) |->
                [Provider |-> keys[i][1], PotentialFraud |-> keys[i][2],
                 InscClaimAmtReimbursed |->
                     <<SumColumn(own(keys[i]), "InscClaimAmtReimbursed"),
                       Len(own(keys[i]))>>]],
            "InscClaimAmtReimbursed"), AmountRows)

ClaimTypeRows == 10

\* top_providers: the claim count of every provider per claim type of the
\* frame, the 10 providers with the largest total, the total dropped
TopProviders(frame) ==
    LET keys  == ProviderKeys(frame)
        types == {r.ClaimType : r \in RowSet(frame)}
        size(p, t) == Len(SelectSeq(frame.rows, LAMBDA r : r.Provider = p
                                                           /\ r.ClaimType = t))
        wide  == [i \in 1..Len(keys) |->
                     [Provider |-> keys[i],
                      counts   |-> [t \in types |-> size(keys[i], t)],
                      Total    |-> <<Len(SelectSeq(frame.rows,
                                        LAMBDA r : r.Provider = keys[i])), 1>>]]
        top   == HeadRows(SortValuesDesc(wide, "Total"), ClaimTypeRows)
    IN  [i \in 1..Len(top) |-> [Provider |-> top[i].Provider, counts |-> top[i].counts]]

ConditionRows == 10

\* Counter(all_conditions).most_common(10): the conditions by descending
\* count, conditions of equal count in order of first appearance
TopConditions(conditions) ==
    LET distinct == Unique(conditions, {})
    IN  HeadRows(SortValuesDesc(
            [i \in 1..Len(distinct) |->
                [Condition |-> distinct[i],
                 Count     |-> <<Len(SelectSeq(conditions,
                                   LAMBDA c : c = distinct[i])), 1>>]],
            "Count"), ConditionRows)

RECURSIVE ConditionData(_)
\* condition_data: one entry per condition of every row of df_filtered
\* whose condition list is not missing
ConditionData(rows) ==
    IF rows = <<>> THEN <<>>
    ELSE IF Head(rows).ChronicConditionList = <<>> THEN ConditionData(Tail(rows))
    ELSE LET conditions == Conditions(Head(rows).ChronicConditionList[1])
         IN  [i \in 1..Len(conditions) |->
                 [Condition      |-> conditions[i],
                  PotentialFraud |-> Head(rows).PotentialFraud,
                  Provider       |-> Head(rows).Provider]]
             \o ConditionData(Tail(rows))

\* The characters of the condition texts, in code-point order
Alphabet == <<" ", ",", "D", "H", "K">>

CharRank(c) == CHOOSE i \in 1..Len(Alphabet) : Alphabet[i] = c

RECURSIVE TextLess(_, _)
\* a < b of two str
TextLess(a, b) ==
    IF b = <<>> THEN FALSE
    ELSE IF a = <<>> THEN TRUE
    ELSE IF Head(a) = Head(b) THEN TextLess(Tail(a), Tail(b))
    ELSE CharRank(Head(a)) < CharRank(Head(b))

RECURSIVE SortedTexts(_)
\* The keys of a groupby on a text column, sorted
SortedTexts(texts) ==
    IF texts = {} THEN <<>>
    ELSE LET least == CHOOSE t \in texts : \A u \in texts \ {t} : TextLess(t, u)
         IN  <<least>> \o SortedTexts(texts \ {least})

FraudRateRows == 15

\* condition_fraud_rate: the share of fraud entries of every condition,
\* times 100, sorted descending, the first 15; nothing without an entry
ConditionFraudRate(frame) ==
    LET data == ConditionData(frame.rows)
        keys == SortedTexts({data[i].Condition : i \in 1..Len(data)})
        own(c) == SelectSeq(data, LAMBDA e : e.Condition = c)
    IN  IF data = <<>> THEN <<>>
        ELSE HeadRows(SortValuesDesc(
                 [i \in 1..Len(keys) |->
                     [Condition |-> keys[i],
                      PotentialFraud |->
                          <<Len(SelectSeq(own(keys[i]),
                                LAMBDA e : e.PotentialFraud = "Yes")) * 100,
                            Len(own(keys[i]))>>]],
                 "PotentialFraud"), FraudRateRows)

\* The top-N rankings of tabs 2, 3 and 5 on df_filtered and all_conditions
Rankings(frame, conditions) ==
    [provider_avg         |-> ProviderAvg(frame),
     top_providers        |-> TopProviders(frame),
     provider_stats       |-> RiskPanel(frame),
     top_conditions       |-> TopConditions(conditions),
     condition_fraud_rate |-> ConditionFraudRate(frame)]

NoFrame == [columns |-> {}, rows |-> <<>>]

\* What one run of main() leaves behind once load_data() returned `loaded`
\* and the widgets returned `sel`.
Pass(loaded, sel) ==
    LET fs   == FilterSteps(loaded, sel)
        end  == EndStage(fs[4])
    IN  [stage       |-> end,
         steps       |-> fs,
         kpi         |-> IF end \in StagesWithKpi THEN Kpi(fs[4]) ELSE NoKpi,
         df_filtered |-> IF end = "done" THEN AssignMonth(fs[4]) ELSE fs[4],
         df          |-> IF end = "done" /\ SameObject(sel)
                         THEN AssignMonth(loaded) ELSE loaded]

-----------------------------------------------------------------------------
(* load_data() under @st.cache_data *)

\* Mutant of CacheHit: load_data() without the cache decorator.
CacheHitNever(c) == FALSE

\* st.cache_data: a call is answered from the entry once one exists.
CacheHit(c) == c.valid

\* Mutant of StoredAfterRun: the entry is the object handed to the callers
\* (st.cache_resource), so what a run writes into it stays.
StoredAfterRunShared(stored, returned) == returned

\* st.cache_data keeps a pickled copy and hands every caller an object of
\* its own: what a run does to the frame it was given never reaches the
\* entry.
StoredAfterRun(stored, returned) == stored

-----------------------------------------------------------------------------
(* Files *)

RawRow(provider, claimType, attending, claimEnd, amount, los, gender, race, conditions, fraud) ==
    [Provider |-> provider, ClaimType |-> claimType, AttendingDate |-> attending,
     ClaimEndDate |-> claimEnd, InscClaimAmtReimbursed |-> amount,
     LengthOfStay |-> los,
     Gender |-> gender, Race |-> race, ChronicConditionList |-> conditions,
     PotentialFraud |-> fraud]

\* Condition texts: "D, H,D", "H", "D,K" and "K"
TextDHD == <<"D", ",", " ", "H", ",", "D">>

TextH == <<"H">>

TextDK == <<"D", ",", "K">>

TextK == <<"K">>

\* The CSV lines the files are made of: two providers, two claim types, both
\* fraud flags, two days and an unparseable date, mapped and unmapped codes.
RawRows ==
    {RawRow("PRV1", "Inpatient",  <<1, 1>>, <<3, 1>>, 300, 3, 1, 1, <<TextDHD>>, "Yes"),
     RawRow("PRV1", "Outpatient", <<2, 1>>, <<2, 1>>, 100, 1, 2, 2, <<TextH>>,   "No"),
     RawRow("PRV2", "Inpatient",  <<2, 1>>, BadDate,  200, 2, 1, 5, <<>>,        "No"),
     RawRow("PRV2", "Outpatient", <<1, 1>>, <<1, 1>>, 100, 1, 2, 9, <<TextDK>>,  "Yes"),
     RawRow("PRV1", "Inpatient",  BadDate,  <<3, 1>>, 200, 2, 3, 1, <<TextK>>,   "No"),
     RawRow("PRV2", "Outpatient", <<2, 1>>, <<3, 1>>, 300, 3, 1, 4, <<TextH>>,   "Yes")}

Files == UNION {[1..n -> RawRows] : n \in 0..MaxRows}

\* The files of the specification in which the file is rewritten and removed
\* while the process runs.
SmallFiles == {<<>>} \cup {<<r>> : r \in RawRows}

MaxClaims == 20

\* Files for the provider risk panel: n claims of PRV1 of which the first k
\* are fraud, alone or followed by one claim of PRV2.
RiskRow(provider, fraud) ==
    RawRow(provider, "Inpatient", <<1, 1>>, <<2, 1>>, 100, 2, 1, 1, <<TextH>>, fraud)

RiskFile(n, k) == [i \in 1..n |-> RiskRow("PRV1", IF i <= k THEN "Yes" ELSE "No")]

RiskFiles ==
    UNION {{RiskFile(n, k) \o other : k \in 0..n,
                                      other \in {<<>>, <<RiskRow("PRV2", "Yes")>>}} :
           n \in 1..MaxClaims}

MaxCode == 6

\* One-line files over the gender and race codes 0..MaxCode
CodeFiles ==
    {<<RawRow("PRV1", "Inpatient", <<1, 1>>, <<2, 1>>, 100, 2, gender, race,
              <<TextH>>, "No")>> : gender \in 0..MaxCode, race \in 0..MaxCode}

MaxMonth == 2

\* Date texts dd/mm/2020 with mm in 1..MaxMonth, 30/02 and 31/02 that no
\* reading makes a date, and a text that is no date or a missing cell
DateTexts == ({1, 5, 29, 30, 31} \X (1..MaxMonth)) \cup {BadDate}

\* One-line files over the pairs of date texts
DateFiles ==
    {<<RawRow("PRV1", "Inpatient", attending, claimEnd, 100, 2, 1, 1,
              <<TextH>>, "No")>> : attending \in DateTexts, claimEnd \in DateTexts}

MaxTextLen == 3

\* The condition texts of 1..MaxTextLen characters over two names, the
\* blank and the comma (read_csv gives NaN for an empty cell)
ShortTexts == UNION {[1..n -> {"D", "H", " ", ","}] : n \in 1..MaxTextLen}

\* ChronicConditionList cells: a text, or missing
ConditionCells == {<<text>> : text \in ShortTexts \cup {TextDHD}} \cup {<<>>}

\* Two-line files: a first line over the cells, a second line with a
\* missing cell, "H" or "D, H,D"
ConditionFiles ==
    {<<RawRow("PRV1", "Inpatient", <<1, 1>>, <<2, 1>>, 100, 2, 1, 1, first, "Yes"),
       RawRow("PRV2", "Inpatient", <<1, 1>>, <<2, 1>>, 100, 2, 1, 1, second, "No")>> :
     first \in ConditionCells, second \in {<<>>, <<TextH>>, <<TextDHD>>}}

\* The files of the specification of one load and one pass over it
WideFiles == RiskFiles \cup CodeFiles \cup DateFiles \cup ConditionFiles

-----------------------------------------------------------------------------
(* State machine *)

NoSelection == [date_range |-> <<>>, selected_provider |-> AllProviders,
                fraud_status |-> {}, claim_types |-> {}]

InitRest ==
    /\ cache = [valid |-> FALSE, value |-> NoFrame, conditions |-> <<>>]
    /\ reads = 0
    /\ first_load = NoFrame
    /\ load_kind = "none"
    /\ wrote_source = FALSE
    /\ selection = NoSelection
    /\ df_loaded = NoFrame
    /\ df = NoFrame
    /\ steps = <<>>
    /\ df_filtered = NoFrame
    /\ kpi = NoKpi
    /\ all_conditions = <<>>
    /\ emitted = <<>>
    /\ stage = "init"

Init ==
    /\ file \in {[present |-> TRUE, rows |-> f] : f \in Files}
    /\ InitRest

InitCache ==
    /\ file \in {[present |-> p, rows |-> f] : p \in BOOLEAN, f \in SmallFiles}
    /\ InitRest

InitWide ==
    /\ file \in {[present |-> TRUE, rows |-> f] : f \in WideFiles}
    /\ InitRest

\* The last run got as far as the four sidebar widgets, so the page shows
\* them and the session holds their values.
StagesAfterWidgets == {"sidebar_summary"} \cup StagesWithKpi

Rendered == stage \in StagesAfterWidgets

\* A widget without a key keeps its session value from one run to the next
\* as long as it is created with the same arguments (bounds, options,
\* default); created with other arguments it is a new widget and returns its
\* default.  The widget the user just changed returns the new value.
\* Mutant of WidgetValue: the session value kept although the widget is
\* created with other arguments.
WidgetValueKept(sameWidget, changed, newValue, oldValue, default) ==
    IF changed THEN newValue
    ELSE IF Rendered THEN oldValue ELSE default

WidgetValue(sameWidget, changed, newValue, oldValue, default) ==
    IF ~sameWidget THEN default
    ELSE IF changed THEN newValue ELSE oldValue

\* A run that raised before the filters: nothing of the pass was computed.
Aborted(at, loaded) ==
    /\ stage' = at
    /\ emitted' = Emitted(at)
    /\ selection' = NoSelection
    /\ df_loaded' = loaded
    /\ df' = loaded
    /\ steps' = <<>>
    /\ df_filtered' = NoFrame
    /\ kpi' = NoKpi

Completed(loaded, conditions, sel) ==
    LET out == Pass(loaded, sel)
    IN  /\ stage' = out.stage
        /\ emitted' = Emitted(out.stage)
        /\ selection' = sel
        /\ df_loaded' = loaded
        /\ df' = out.df
        /\ steps' = out.steps
        /\ df_filtered' = out.df_filtered
        /\ kpi' = out.kpi
        /\ cache' = [valid |-> TRUE, value |-> StoredAfterRun(loaded, out.df),
                     conditions |-> conditions]

\* What the four widgets return in the run that follows the user's change
\* of widget w to value v ("none": a rerun without a change).
Widgets(loaded, w, v) ==
    LET bounds       == <<MinDate(loaded), MaxDate(loaded)>>
        date_range   == WidgetValue(
                            Rendered /\ <<MinDate(df_loaded), MaxDate(df_loaded)>> = bounds,
                            w = "date", v, selection.date_range, bounds)
        f1           == DateStep(loaded, date_range)
        provider     == WidgetValue(
                            Rendered /\ ProviderOptions(steps[1]) = ProviderOptions(f1),
                            w = "provider", v, selection.selected_provider, AllProviders)
        fraud_status == WidgetValue(
                            Rendered,
                            w = "fraud", v, selection.fraud_status,
                            {"Potential Fraud", "No Fraud"})
        f3           == FraudStep(ProviderStep(f1, provider), fraud_status)
        claim_types  == WidgetValue(
                            Rendered /\ ClaimTypeOptions(steps[3]) = ClaimTypeOptions(f3),
                            w = "claim", v, selection.claim_types,
                            ClaimTypeOptionSet(f3))
    IN  [date_range |-> date_range, selected_provider |-> provider,
         fraud_status |-> fraud_status, claim_types |-> claim_types]

\* One UI event: main() from its first line to its last, or to the statement
\* that raises.
Main(w, v) ==
    IF ~CacheHit(cache) /\ ~file.present
    THEN \* pd.read_csv raises FileNotFoundError; nothing is cached
         /\ Aborted("load_data", NoFrame)
         /\ load_kind' = "failed"
         /\ wrote_source' = (df # df_loaded)
         /\ all_conditions' = <<>>
         /\ UNCHANGED <<file, cache, reads, first_load>>
    ELSE LET loaded     == IF CacheHit(cache) THEN cache.value ELSE ParseFile(file.rows)
             conditions == IF CacheHit(cache) THEN cache.conditions
                           ELSE AllConditions(ParseFile(file.rows).rows)
         IN  /\ all_conditions' = conditions
             /\ reads' = IF CacheHit(cache) THEN reads ELSE reads + 1
             /\ first_load' = IF reads = 0 /\ ~CacheHit(cache) THEN loaded ELSE first_load
             /\ load_kind' = IF CacheHit(cache) THEN "cached" ELSE "parsed"
             /\ wrote_source' = (df # df_loaded)
             /\ UNCHANGED file
             /\ IF MinDate(loaded) = NaT
                THEN \* st.date_input cannot serialise NaT bounds
                     /\ Aborted("date_input", loaded)
                     /\ cache' = [valid |-> TRUE, value |-> StoredAfterRun(loaded, loaded),
                                  conditions |-> conditions]
                ELSE Completed(loaded, conditions, Widgets(loaded, w, v))

\* The page is opened, or rerun without a change of widget.
Rerun == Main("none", <<>>)

ChangeDate ==
    /\ Rendered
    /\ \E v \in DateInput(MinDate(df_loaded), MaxDate(df_loaded)) \ {selection.date_range} :
           Main("date", v)

ChangeProvider ==
    /\ Rendered
    /\ \E v \in ProviderOptions(steps[1]) \ {selection.selected_provider} :
           Main("provider", v)

ChangeFraudStatus ==
    /\ Rendered
    /\ \E v \in (SUBSET FraudStatusOptions) \ {selection.fraud_status} :
           Main("fraud", v)

ChangeClaimTypes ==
    /\ Rendered
    /\ \E v \in (SUBSET ClaimTypeOptionSet(steps[3])) \ {selection.claim_types} :
           Main("claim", v)

\* The file is rewritten on disk while the process runs.
WriteFile ==
    /\ \E f \in SmallFiles \ {file.rows} : file' = [present |-> TRUE, rows |-> f]
    /\ UNCHANGED <<cache, reads, first_load, load_kind, wrote_source, selection,
                   df_loaded, df, steps, df_filtered, kpi, all_conditions,
                   emitted, stage>>

\* The file is removed from disk while the process runs.
RemoveFile ==
    /\ file.present
    /\ file' = [file EXCEPT !.present = FALSE]
    /\ UNCHANGED <<cache, reads, first_load, load_kind, wrote_source, selection,
                   df_loaded, df, steps, df_filtered, kpi, all_conditions,
                   emitted, stage>>

Next == Rerun \/ ChangeDate \/ ChangeProvider \/ ChangeFraudStatus \/ ChangeClaimTypes

Spec == Init /\ [][Next]_vars

NextCache == Next \/ WriteFile \/ RemoveFile

SpecCache == InitCache /\ [][NextCache]_vars

\* The script run with the widgets left at their defaults
NextWide == Rerun

SpecWide == InitWide /\ [][NextWide]_vars

-----------------------------------------------------------------------------
(* Claims *)

\* The rows of frame that satisfy Keep(row), in frame order.
RowsWhere(frame, Keep(_)) == SelectSeq(frame.rows, Keep)

\* C1: a run whose filters leave no row still completes: it reaches the end
\* of main() without raising.
C1_EmptySubsetCompletes ==
    (Rendered /\ steps[4].rows = <<>>) => stage = "done"

\* C2: a run leaves the frame load_data() returned as it was: same columns,
\* same rows, same values; Month is never added to it.
C2_LoadedFrameUnchanged ==
    Rendered => (df = df_loaded /\ "Month" \notin df.columns)

\* C3: the file is read and parsed at most once, and every call of
\* load_data() that returns, returns the frame of the first parse, whatever
\* has happened to the file since.
C3_ParsedOnce ==
    /\ reads <= 1
    /\ load_kind \in {"parsed", "cached"} => df_loaded = first_load

\* C3 witness: a call answered from the cache while the file on disk no
\* longer holds what was parsed.
C3_Witness ==
    /\ load_kind = "cached"
    /\ file.present
    /\ ParseFile(file.rows) # df_loaded
    /\ stage = "done"

\* C4: what a run computes depends on the loaded dataset and the current
\* selection only: the frame it is given is the parsed file, and its filter
\* steps, KPIs, final df_filtered and end are those of a first run with the
\* same selection, whatever runs came before.
C4_HistoryIndependent ==
    Rendered =>
        /\ df_loaded = ParseFile(file.rows)
        /\ LET fresh == Pass(ParseFile(file.rows), selection)
           IN  /\ steps = fresh.steps
               /\ kpi = fresh.kpi
               /\ df_filtered = fresh.df_filtered
               /\ stage = fresh.stage

\* C4 witness: a completed run, on a narrowed subset, right after a run that
\* wrote the Month column into the very frame load_data() gave it.
C4_Witness ==
    /\ wrote_source
    /\ load_kind = "cached"
    /\ stage = "done"
    /\ ~SameObject(selection)
    /\ df_filtered.rows # <<>>
    /\ Len(df_filtered.rows) < Len(df_loaded.rows)

\* C5: fraud_count <= total_claims and 0 <= fraud_percentage <= 100, with
\* fraud_percentage = fraud_count / total_claims * 100, and 0 for no row:
\* of the KPI cards of every run that shows them, and of the KPI
\* expressions on every filtered subset.
KpiSound(k, frame) ==
    /\ k.total_claims = Len(frame.rows)
    /\ k.fraud_count = Len(RowsWhere(frame, LAMBDA r : r.PotentialFraud = "Yes"))
    /\ k.fraud_count <= k.total_claims
    /\ k.fraud_percentage[2] > 0
    /\ 0 <= k.fraud_percentage[1]
    /\ k.fraud_percentage[1] <= 100 * k.fraud_percentage[2]
    /\ k.fraud_percentage[1] * k.total_claims
           = k.fraud_count * 100 * k.fraud_percentage[2]
    /\ k.total_claims = 0 => k.fraud_percentage[1] = 0

C5_KpiBounds ==
    /\ kpi.computed => KpiSound(kpi, steps[4])
    /\ Rendered => KpiSound(Kpi(steps[4]), steps[4])

\* C5 witness: KPI cards shown with some but not all claims flagged.
C5_Witness ==
    /\ kpi.computed
    /\ 0 < kpi.fraud_count
    /\ kpi.fraud_count < kpi.total_claims

\* C6: each filter step yields a part of the previous step's rows, in the
\* order date, provider, fraud status, claim type, and the final subset is
\* exactly the rows of the loaded frame that meet every active criterion.
DateActive == Len(selection.date_range) = 2

MeetsAll(r) ==
    /\ DateActive => /\ r.AttendingDate # NaT
                     /\ selection.date_range[1] <= r.AttendingDate
                     /\ r.AttendingDate <= selection.date_range[2]
    /\ selection.selected_provider # AllProviders
           => r.Provider = selection.selected_provider
    /\ AllClaims \notin selection.fraud_status
           => \/ r.PotentialFraud = "Yes" /\ "Potential Fraud" \in selection.fraud_status
              \/ r.PotentialFraud = "No" /\ "No Fraud" \in selection.fraud_status
    /\ selection.claim_types # {} => r.ClaimType \in selection.claim_types

C6_FiltersNarrowInSequence ==
    Rendered =>
        /\ IdxSet(steps[1]) \subseteq IdxSet(df_loaded)
        /\ \A k \in 1..3 : IdxSet(steps[k + 1]) \subseteq IdxSet(steps[k])
        /\ \A k \in 1..4 : RowSet(steps[k]) \subseteq RowSet(df_loaded)
        /\ selection.selected_provider = AllProviders => steps[2] = steps[1]
        /\ steps[4].rows = RowsWhere(df_loaded, MeetsAll)

\* C6 witness: all four filters active, each dropping a row or keeping one.
C6_Witness ==
    /\ Rendered
    /\ DateActive
    /\ selection.selected_provider # AllProviders
    /\ AllClaims \notin selection.fraud_status
    /\ selection.claim_types # {}
    /\ steps[4].rows # <<>>
    /\ Len(steps[2].rows) < Len(steps[1].rows)

\* C7: the date filter with start = the minimum and end = the maximum
\* attending date keeps as many rows as no date filter.
C7_FullRangeKeepsAllRows ==
    (Rendered /\ selection.date_range = <<MinDate(df_loaded), MaxDate(df_loaded)>>)
        => Len(steps[1].rows) = Len(df_loaded.rows)

\* C8: a complete range keeps exactly the rows with
\* start <= AttendingDate <= end, both endpoints included; an incomplete
\* range keeps every row of the loaded frame.
C8_DateRangeInclusive ==
    Rendered =>
        IF Len(selection.date_range) = 2
        THEN steps[1].rows = RowsWhere(df_loaded, LAMBDA r :
                 /\ r.AttendingDate # NaT
                 /\ selection.date_range[1] <= r.AttendingDate
                 /\ r.AttendingDate <= selection.date_range[2])
        ELSE steps[1] = df_loaded

\* C8 witness: a complete range with start < end that keeps a row dated at
\* each endpoint.
C8_Witness ==
    /\ Rendered
    /\ Len(selection.date_range) = 2
    /\ selection.date_range[1] < selection.date_range[2]
    /\ \E r \in RowSet(steps[1]) : r.AttendingDate = selection.date_range[1]
    /\ \E r \in RowSet(steps[1]) : r.AttendingDate = selection.date_range[2]

\* C9: with 'All Claims' selected the fraud-status step keeps every row;
\* otherwise it keeps exactly the rows flagged 'Yes' when 'Potential Fraud'
\* is selected and those flagged 'No' when 'No Fraud' is selected, so no
\* label keeps no row.
C9_FraudStatusStep ==
    Rendered =>
        /\ AllClaims \in selection.fraud_status => steps[3] = steps[2]
        /\ AllClaims \notin selection.fraud_status =>
               steps[3].rows = RowsWhere(steps[2], LAMBDA r :
                   \/ r.PotentialFraud = "Yes" /\ "Potential Fraud" \in selection.fraud_status
                   \/ r.PotentialFraud = "No" /\ "No Fraud" \in selection.fraud_status)
        /\ selection.fraud_status = {} => steps[3].rows = <<>>

\* C9 witness: no label selected on a subset that had rows.
C9_Witness ==
    /\ Rendered
    /\ selection.fraud_status = {}
    /\ steps[2].rows # <<>>
    /\ steps[3].rows = <<>>

\* C10: a non-empty claim-type selection keeps exactly the rows whose claim
\* type is selected; an empty selection excludes no row.
C10_ClaimTypeStep ==
    Rendered =>
        IF selection.claim_types # {}
        THEN steps[4].rows = RowsWhere(steps[3], LAMBDA r :
                 r.ClaimType \in selection.claim_types)
        ELSE steps[4] = steps[3]

\* C10 witness: no claim type selected, and the rows of both claim types
\* are all kept.
C10_Witness ==
    /\ Rendered
    /\ selection.claim_types = {}
    /\ Cardinality(ClaimTypeOptionSet(steps[3])) = 2
    /\ steps[4] = steps[3]

\* C11: each of the four value-count distributions of tab 1 (fraud status,
\* claim type, gender, race) sums to the number of rows of the filtered
\* subset, also when rows carry a gender or race code outside the mapping.
C11_DistributionsSumToRowCount ==
    stage \in StagesWithDistributions =>
        LET dist == Distributions(steps[4])
        IN  \A d \in DOMAIN dist :
                SumOver(dist[d], DOMAIN dist[d]) = Len(steps[4].rows)

\* The number of rows of the provider in the frame that satisfy Keep
CountOf(frame, provider, Keep(_)) ==
    Cardinality({i \in 1..Len(frame.rows) :
                    frame.rows[i].Provider = provider /\ Keep(frame.rows[i])})

\* The tier of the claim's partition for the rate fraud / count * 100:
\* above 30 high, from 15 to 30 inclusive medium, below 15 low
TierOf(fraud, count) ==
    IF fraud * 100 > 30 * count THEN HighColor
    ELSE IF fraud * 100 >= 15 * count THEN ModerateColor
    ELSE LowColor

\* C12: every row of the provider risk panel shows the rate
\* fraud rows / rows * 100 of its provider (to the two decimals shown) and
\* carries the tier of that rate: high above 30, medium from 15 to 30
\* inclusive, low below 15.
C12_RiskTierPartition ==
    stage = "done" =>
        \A i \in DOMAIN RiskPanel(steps[4]) :
            LET row   == RiskPanel(steps[4])[i]
                count == CountOf(steps[4], row.stats.Provider, LAMBDA r : TRUE)
                fraud == CountOf(steps[4], row.stats.Provider,
                                 LAMBDA r : r.PotentialFraud = "Yes")
                shown == row.stats.Fraud_Rate_pct[1]
                off   == shown * count - fraud * 10000
            IN  /\ row.stats.Fraud_Rate_pct[2] = 100
                /\ 2 * off <= count /\ 2 * off >= 0 - count
                /\ row.color = TierOf(fraud, count)

\* C13: on an empty filtered subset every top-N ranking (provider mean
\* amounts, per-provider claim-type counts, provider risk panel, condition
\* frequencies, per-condition fraud rates) is the empty sequence, and the
\* condition frequency ranking a run shows is the ranking of the
\* conditions of its filtered subset.
C13_RankingsOfFilteredSubset ==
    /\ (Rendered /\ steps[4].rows = <<>>) =>
           \A name \in DOMAIN Rankings(steps[4], all_conditions) :
               Rankings(steps[4], all_conditions)[name] = <<>>
    /\ stage = "done" =>
           Rankings(steps[4], all_conditions).top_conditions
               = TopConditions(AllConditions(steps[4].rows))

\* C14: a run in which load_data() fails (the file is absent or
\* unreadable) emits no UI element.
C14_FailedLoadShowsNothing ==
    stage = "load_data" => emitted = <<>>

\* The run called load_data() and got a frame back.
Loaded == stage \notin {"init", "load_data"}

\* The dictionaries of the claim
GenderLabels == (1 :> "Male") @@ (2 :> "Female")

RaceLabels ==
    (1 :> "White") @@ (2 :> "Black") @@ (3 :> "Asian") @@ (4 :> "Other") @@ (5 :> "Other")

LabelOf(labels, code) == IF code \in DOMAIN labels THEN labels[code] ELSE NaN

\* C15: load_data() returns, for every line of the file, a row whose Gender
\* is 'Male' for code 1 and 'Female' for code 2 and whose Race is 'White',
\* 'Black', 'Asian', 'Other', 'Other' for codes 1..5; any other code gives
\* a missing label, and no code makes the load fail.
C15_CodeLabels ==
    stage # "init" =>
        /\ stage # "load_data"
        /\ Len(df_loaded.rows) = Len(file.rows)
        /\ \A i \in 1..Len(file.rows) :
               /\ df_loaded.rows[i].Gender = LabelOf(GenderLabels, file.rows[i].Gender)
               /\ df_loaded.rows[i].Race = LabelOf(RaceLabels, file.rows[i].Race)

\* C15 witness: a loaded line with race code 5, labelled 'Other', and a
\* gender code outside the dictionary, whose label is missing.
C15_Witness ==
    /\ Loaded
    /\ \E i \in 1..Len(file.rows) :
           /\ file.rows[i].Race = 5 /\ df_loaded.rows[i].Race = "Other"
           /\ file.rows[i].Gender \notin {1, 2} /\ df_loaded.rows[i].Gender = NaN

\* The text day/month/2020 names a day of the calendar
IsDate(text) ==
    /\ text # BadDate
    /\ text[2] \in 1..12
    /\ text[1] \in 1..DaysInMonth[text[2]]

\* The days from 1 January 2020 to the day the text names day-first, both
\* included
DayOfYear(text) == DaysBefore(text[2]) + text[1]

\* C16: a row whose two date texts both parse (read day-first) has
\* ClaimDuration = days from AttendingDate to ClaimEndDate + 1; a row with
\* a missing or unparseable date has a missing ClaimDuration, and the load
\* does not fail.
C16_ClaimDuration ==
    stage # "init" =>
        /\ stage # "load_data"
        /\ Len(df_loaded.rows) = Len(file.rows)
        /\ \A i \in 1..Len(file.rows) :
               LET attending == file.rows[i].AttendingDate
                   claimEnd  == file.rows[i].ClaimEndDate
               IN  IF IsDate(attending) /\ IsDate(claimEnd)
                   THEN df_loaded.rows[i].ClaimDuration
                            = <<(DayOfYear(claimEnd) - DayOfYear(attending)) + 1>>
                   ELSE df_loaded.rows[i].ClaimDuration = <<>>

\* C16 witness: 01/02/2020 to 05/02/2020 loaded with ClaimDuration 5, the
\* attending date being 1 February.
C16_Witness ==
    /\ Loaded
    /\ \E i \in 1..Len(file.rows) :
           /\ file.rows[i].AttendingDate = <<1, 2>>
           /\ file.rows[i].ClaimEndDate = <<5, 2>>
           /\ df_loaded.rows[i].AttendingDate = 32
           /\ df_loaded.rows[i].ClaimDuration = <<5>>

\* The j-th comma-separated token of the text: the characters between the
\* (j-1)-th and the j-th comma, without the blanks before the first and
\* after the last character that is not a blank
TokenAt(text, j) ==
    LET commas == {p \in 1..Len(text) : text[p] = ","}
        before(p) == Cardinality({q \in commas : q < p})
        piece  == SelectSeq([p \in 1..Len(text) |-> <<p, text[p]>>],
                            LAMBDA e : e[2] # "," /\ before(e[1]) = j - 1)
        marks  == {p \in 1..Len(piece) : piece[p][2] # " "}
        lo     == CHOOSE p \in marks : \A q \in marks : p <= q
        hi     == CHOOSE p \in marks : \A q \in marks : q <= p
    IN  IF marks = {} THEN <<>>
        ELSE [p \in 1..(hi - lo + 1) |-> piece[lo + p - 1][2]]

\* The tokens a cell contributes: none when the cell is missing
TokensOf(cell) ==
    IF cell = <<>> THEN <<>>
    ELSE [j \in 1..(Cardinality({p \in 1..Len(cell[1]) : cell[1][p] = ","}) + 1) |->
             TokenAt(cell[1], j)]

RECURSIVE Concatenation(_)
Concatenation(seqs) ==
    IF seqs = <<>> THEN <<>> ELSE Head(seqs) \o Concatenation(Tail(seqs))

\* C17: the condition sequence load_data() returns is the concatenation, in
\* row order and within a row in text order, of the comma-separated tokens
\* of every non-missing condition list, each token trimmed, duplicates
\* kept; a row with a missing list adds nothing.
C17_FlatConditionSequence ==
    Loaded =>
        all_conditions
            = Concatenation([i \in 1..Len(file.rows) |->
                                TokensOf(file.rows[i].ChronicConditionList)])

\* C17 witness: "D, H,D" on the first line and a missing list on the second
\* give D, H, D.
C17_Witness ==
    /\ Loaded
    /\ Len(file.rows) = 2
    /\ file.rows[1].ChronicConditionList = <<TextDHD>>
    /\ file.rows[2].ChronicConditionList = <<>>
    /\ all_conditions = << <<"D">>, <<"H">>, <<"D">> >>

\* C18: the provider selection is among the options drawn from the
\* date-filtered subset and the claim-type selection among those drawn from
\* the subset after the fraud-status step, so neither step empties a
\* non-empty subset: the final subset is empty only if the date-range step
\* or the fraud-status step left no rows.
C18_OfferedOptionsKeepRows ==
    Rendered =>
        /\ selection.selected_provider \in ProviderOptions(steps[1])
        /\ selection.claim_types \subseteq ClaimTypeOptionSet(steps[3])
        /\ steps[1].rows # <<>> => steps[2].rows # <<>>
        /\ steps[3].rows # <<>> => steps[4].rows # <<>>
        /\ steps[4].rows = <<>> => (steps[1].rows = <<>> \/ steps[3].rows = <<>>)

\* C18 witness: one of two offered providers and an offered claim type
\* selected, the provider step dropping a row and rows remaining.
C18_Witness ==
    /\ Rendered
    /\ selection.selected_provider # AllProviders
    /\ Len(steps[2].rows) < Len(steps[1].rows)
    /\ selection.claim_types # {}
    /\ steps[4].rows # <<>>

=============================================================================
